---- MODULE Spec2Model ----
(***************************************************************************)
(* Model of prover/src/input_processing/public_inputs_hash.rs:             *)
(* compute_public_inputs_hash, compute_idc_hash, compute_temp_pubkey_frs.  *)
(* Each invocation is a call record that walks through the statements of   *)
(* compute_public_inputs_hash in source order; a `?` that fails ends the   *)
(* call with an error, an out-of-range index ends it with a panic.         *)
(* Byte strings are sequences of byte values.  A field element is either a *)
(* small value (its little-endian bytes without trailing zeros) or the     *)
(* output of the sponge, kept symbolically as the vector it was computed   *)
(* from (the sponge is taken to be collision free).                        *)
(***************************************************************************)
EXTENDS Integers, Sequences, FiniteSets, TLC

VARIABLES calls, epk_max

vars == <<calls, epk_max>>

----------------------------------------------------------------------------
(* Bounds of the model *)

\* an input differs from the baseline request in at most this many fields
MaxDeviations == 2

\* how many times one caller invokes the function on its (bundle, config)
MaxRounds == 2

----------------------------------------------------------------------------
(* Constants of the protocol *)

\* bytes packed into one scalar by the packing primitive
BYTES_PACKED_PER_SCALAR == 31

\* IdCommitment::MAX_AUD_VAL_BYTES
MAX_AUD_VAL_BYTES == 120

\* Configuration::new_for_devnet().max_commited_epk_bytes
DEVNET_MAX_COMMITED_EPK_BYTES == 93

----------------------------------------------------------------------------
(* Byte strings *)

Rep(b, n) == [i \in 1..n |-> b]

\* n bytes, pairwise different over a chunk, never zero
Ramp(n) == [i \in 1..n |-> (i % 200) + 1]

Min(a, b) == IF a < b THEN a ELSE b

RECURSIVE TrimZeros(_)
TrimZeros(s) ==
    IF s = <<>> THEN <<>>
    ELSE IF s[Len(s)] = 0 THEN TrimZeros(SubSeq(s, 1, Len(s) - 1))
    ELSE s

RECURSIVE LEBytes(_)
LEBytes(n) == IF n = 0 THEN <<>> ELSE <<n % 256>> \o LEBytes(n \div 256)

S_iss == <<105, 115, 115>>
S_sub == <<115, 117, 98>>
S_subj == <<115, 117, 98, 106>>
S_fam == <<102, 97, 109>>
S_dot == <<46>>

----------------------------------------------------------------------------
(* Field elements *)

\* a scalar given by its value
FrBytes(bs) == [tag |-> "fe", le |-> TrimZeros(bs), pre |-> <<>>]

\* Fr::from(n)
FrInt(n) == FrBytes(LEBytes(n))

\* a scalar that is a sponge output over the vector frs
FrSponge(frs) == [tag |-> "hash", le |-> <<>>, pre |-> frs]

\* a scalar that is the JWK collaborator's hash of key k
FrJwk(k) == [tag |-> "jwk", le |-> LEBytes(k), pre |-> <<>>]

----------------------------------------------------------------------------
(* Results and errors *)

NoErr == [type |-> "none", name |-> "", key |-> <<>>, len |-> 0, max |-> 0]

ConfigKeyMissing(k) ==
    [type |-> "ConfigKeyMissing", name |-> k, key |-> <<>>, len |-> 0, max |-> 0]

FieldNotFound(k) ==
    [type |-> "FieldNotFound", name |-> "", key |-> k, len |-> 0, max |-> 0]

LengthExceeded(n, m) ==
    [type |-> "LengthExceeded", name |-> "", key |-> <<>>, len |-> n, max |-> m]

MalformedToken ==
    [type |-> "MalformedToken", name |-> "", key |-> <<>>, len |-> 0, max |-> 0]

UnsupportedKeyType ==
    [type |-> "UnsupportedKeyType", name |-> "", key |-> <<>>, len |-> 0, max |-> 0]

\* a panic is not an error value: the call never returns
Panic == [type |-> "panic", name |-> "", key |-> <<>>, len |-> 0, max |-> 0]

Ok(v) == [ok |-> TRUE, val |-> v, err |-> NoErr]

\* d is a value of the type the Ok side would carry
Err(e, d) == [ok |-> FALSE, val |-> d, err |-> e]

----------------------------------------------------------------------------
(* External primitives, by their contracts *)

\* Scalar Sponge
hash_scalars(frs) == Ok(FrSponge(frs))

Pad(bytes, max_bytes) == bytes \o Rep(0, max_bytes - Len(bytes))

NumChunks(n) == (n + BYTES_PACKED_PER_SCALAR - 1) \div BYTES_PACKED_PER_SCALAR

\* the padded buffer cut into chunks of BYTES_PACKED_PER_SCALAR bytes, one scalar each
PackBytes(padded) ==
    [k \in 1..NumChunks(Len(padded)) |->
        FrBytes(SubSeq(padded, (k - 1) * BYTES_PACKED_PER_SCALAR + 1,
                       Min(k * BYTES_PACKED_PER_SCALAR, Len(padded))))]

\* Byte-Packing Primitive: the packed scalars followed by the length scalar
pad_and_pack_bytes_to_scalars_with_len(bytes, max_bytes) ==
    IF Len(bytes) > max_bytes
    THEN Err(LengthExceeded(Len(bytes), max_bytes), <<>>)
    ELSE Ok(PackBytes(Pad(bytes, max_bytes)) \o <<FrInt(Len(bytes))>>)

\* String Commitment Primitive
pad_and_hash_string(str, max_bytes) ==
    IF Len(str) > max_bytes
    THEN Err(LengthExceeded(Len(str), max_bytes), FrInt(0))
    ELSE hash_scalars(PackBytes(Pad(str, max_bytes)) \o <<FrInt(Len(str))>>)

----------------------------------------------------------------------------
(* Collaborators of this repository: field extraction and the bundle's views *)

NoField == [key |-> <<>>, value |-> <<>>, whole_field |-> <<>>]

\* the literal text of one payload member: "key":value,
WholeField(key, value) == <<34>> \o key \o <<34, 58>> \o value \o <<44>>

\* the payload's top-level members carrying key `key`
Matches(payload, key) == {i \in 1..Len(payload) : payload[i].key = key}

\* Field Extractor: the first top-level member named `key`
find_and_parse_field(payload, key) ==
    IF Matches(payload, key) = {}
    THEN Err(FieldNotFound(key), NoField)
    ELSE LET i == CHOOSE i \in Matches(payload, key) :
                      \A j \in Matches(payload, key) : i <= j
         IN Ok([key |-> payload[i].key, value |-> payload[i].value,
                whole_field |-> WholeField(payload[i].key, payload[i].value)])

\* JwtParts::payload_decoded
payload_decoded(input) ==
    IF input.payload_ok THEN Ok(input.payload) ELSE Err(MalformedToken, <<>>)

\* JwtParts::header_undecoded_with_dot
header_undecoded_with_dot(input) == input.header \o S_dot

\* Input::use_extra_field
use_extra_field(input) == input.extra_field.some

\* the placeholder committed in the extra-field slot when no name is supplied
DefaultExtraField == [key |-> <<>>, value |-> <<>>, whole_field |-> <<32>>]

\* field_check_input::parsed_extra_field_or_default
parsed_extra_field_or_default(input) ==
    IF input.extra_field.some
    THEN find_and_parse_field(input.payload, input.extra_field.v)
    ELSE Ok(DefaultExtraField)

\* the placeholder committed in the override-audience slot when the bundle holds
\* no override audience: the empty string
DefaultOverrideAud == <<>>

\* field_check_input::override_aud_value
override_aud_value(input) ==
    IF input.idc_aud.some THEN Ok(input.idc_aud.v) ELSE Ok(DefaultOverrideAud)

\* field_check_input::private_aud_value
private_aud_value(input) == Ok(input.private_aud)

\* RSA_JWK::to_poseidon_scalar
to_poseidon_scalar(jwk) ==
    IF jwk.supported THEN Ok(FrJwk(jwk.id)) ELSE Err(UnsupportedKeyType, FrInt(0))

----------------------------------------------------------------------------
(* Requests: a Claim Bundle and a Field-Check Config *)

None == [some |-> FALSE, v |-> <<>>]

Some(x) == [some |-> TRUE, v |-> x]

ConfigKeys ==
    {"private_aud_value", "uid_value", "uid_name", "iss_value", "extra_field",
     "jwt_header_with_separator"}

\* the maximum lengths of the full configuration
BaseConfig ==
    [private_aud_value |-> 4, uid_value |-> 5, uid_name |-> 3, iss_value |-> 6,
     extra_field |-> 12, jwt_header_with_separator |-> 8]

\* A request is described by one choice per field.  "short", "max" and "over"
\* are a value below, exactly at and one byte over the field's maximum.
Base ==
    [payload_ok |-> "yes", iss |-> "short", uid_key |-> "sub", uid |-> "short",
     fam |-> "short", empty_member |-> "no", extra_field |-> "fam",
     idc_aud |-> "none", private_aud |-> "short", epk |-> "short",
     header |-> "short", jwk |-> "rsa", pepper |-> "p76", exp |-> "a",
     cfg_private_aud_value |-> "yes", cfg_uid_value |-> "yes",
     cfg_uid_name |-> "yes", cfg_iss_value |-> "yes", cfg_extra_field |-> "yes",
     cfg_jwt_header_with_separator |-> "yes"]

Dims == DOMAIN Base

\* the other choices of each field
Edits ==
    ({"payload_ok"} \X {"no"})
    \cup ({"iss", "uid", "fam"} \X {"max", "over", "absent"})
    \cup ({"uid_key"} \X {"subj"})
    \cup ({"empty_member"} \X {"yes"})
    \cup ({"extra_field"} \X {"none", "empty"})
    \cup ({"idc_aud"} \X {"empty", "short", "max", "over"})
    \cup ({"private_aud", "epk", "header"} \X {"max", "over"})
    \cup ({"jwk"} \X {"rsa2", "unsupported"})
    \cup ({"pepper"} \X {"p77"})
    \cup ({"exp"} \X {"b"})
    \cup ({"cfg_" \o k : k \in ConfigKeys} \X {"no"})

\* the sets of at most k edits, no two of the same field
RECURSIVE EditSets(_)
EditSets(k) ==
    IF k = 0 THEN {{}}
    ELSE LET prev == EditSets(k - 1)
         IN prev \cup UNION {{s \cup {e} : e \in {g \in Edits : \A f \in s : f[1] # g[1]}} :
                              s \in prev}

Apply(s) ==
    [d \in Dims |->
        IF \E e \in s : e[1] = d THEN (CHOOSE e \in s : e[1] = d)[2] ELSE Base[d]]

Sized(b, choice, max) ==
    Rep(b, CASE choice = "empty" -> 0
             [] choice = "short" -> 2
             [] choice = "max" -> max
             [] choice = "over" -> max + 1)

Member(present, key, value) ==
    IF present THEN <<[key |-> key, value |-> value]>> ELSE <<>>

UidKey(d) == IF d.uid_key = "sub" THEN S_sub ELSE S_subj

\* the decoded payload's top-level members, in order
Payload(d) ==
    Member(d.iss # "absent", S_iss, Sized(105, d.iss, BaseConfig.iss_value))
    \o Member(d.uid # "absent", UidKey(d), Sized(117, d.uid, BaseConfig.uid_value))
    \o Member(d.fam # "absent", S_fam,
              Sized(102, d.fam, BaseConfig.extra_field - Len(WholeField(S_fam, <<>>))))
    \o Member(d.empty_member = "yes", <<>>, <<101>>)

Bundle(d) ==
    [payload_ok |-> d.payload_ok = "yes",
     payload |-> Payload(d),
     header |-> Sized(104, d.header, BaseConfig.jwt_header_with_separator - 1),
     jwk |-> [supported |-> d.jwk # "unsupported", id |-> IF d.jwk = "rsa2" THEN 2 ELSE 1],
     epk |-> IF d.epk = "short" THEN Ramp(34)
             ELSE IF d.epk = "max" THEN Ramp(DEVNET_MAX_COMMITED_EPK_BYTES)
             ELSE Ramp(DEVNET_MAX_COMMITED_EPK_BYTES + 1),
     pepper_fr |-> IF d.pepper = "p76" THEN FrInt(76) ELSE FrInt(77),
     exp_date_secs |-> IF d.exp = "a" THEN 1900255944 ELSE 1900255945,
     exp_horizon_secs |-> 100255944,
     uid_key |-> UidKey(d),
     extra_field |-> IF d.extra_field = "none" THEN None
                     ELSE IF d.extra_field = "empty" THEN Some(<<>>)
                     ELSE Some(S_fam),
     idc_aud |-> IF d.idc_aud = "none" THEN None
                 ELSE Some(Sized(111, d.idc_aud, MAX_AUD_VAL_BYTES)),
     private_aud |-> Sized(97, d.private_aud, BaseConfig.private_aud_value)]

Config(d) == [k \in {k \in ConfigKeys : d["cfg_" \o k] = "yes"} |-> BaseConfig[k]]

Request(d) == [input |-> Bundle(d), config |-> Config(d)]

\* the requests of the sequential specification
Requests == {Request(Apply(s)) : s \in EditSets(MaxDeviations)}

----------------------------------------------------------------------------
(* The statements of public_inputs_hash.rs *)

\* config.max_lengths.get(k).ok_or_else(..)
ConfigGet(config, k) ==
    IF k \in DOMAIN config THEN Ok(config[k]) ELSE Err(ConfigKeyMissing(k), 0)

\* config.max_lengths[k]: a missing key panics
ConfigIndex(config, k) ==
    IF k \in DOMAIN config THEN Ok(config[k]) ELSE Err(Panic, 0)

\* pad_and_hash_string(&s?, *m?)?: the string first, then the length, then the hash
HashUnder(s, m) ==
    IF ~s.ok THEN Err(s.err, FrInt(0))
    ELSE IF ~m.ok THEN Err(m.err, FrInt(0))
    ELSE pad_and_hash_string(s.val, m.val)

\* an absent iss read as an empty field
iss_field_or_default(input) ==
    LET p == payload_decoded(input)
    IN IF ~p.ok THEN Err(p.err, NoField)
       ELSE Ok(find_and_parse_field(p.val, S_iss).val)

iss_field(input) ==
    LET p == payload_decoded(input)
    IN IF ~p.ok THEN Err(p.err, NoField) ELSE find_and_parse_field(p.val, S_iss)

uid_field(input, jwt_payload) == find_and_parse_field(jwt_payload, input.uid_key)

\* the override audience, when supplied, committed in place of the private one
aud_hash_fr_of_override(input, config) ==
    HashUnder(IF input.idc_aud.some THEN override_aud_value(input)
              ELSE private_aud_value(input),
              ConfigGet(config, "private_aud_value"))

aud_hash_fr(input, config) ==
    HashUnder(private_aud_value(input), ConfigGet(config, "private_aud_value"))

uid_val_hash_fr(field, config) ==
    HashUnder(Ok(field.value), ConfigGet(config, "uid_value"))

\* the key name committed under the length of the value
uid_key_hash_fr_wrong_max(field, config) ==
    HashUnder(Ok(field.key), ConfigGet(config, "uid_value"))

uid_key_hash_fr(field, config) ==
    HashUnder(Ok(field.key), ConfigGet(config, "uid_name"))

NoPubkeyFrs == [frs |-> <<>>, len |-> FrInt(0)]

compute_temp_pubkey_frs(input) ==
    LET r == pad_and_pack_bytes_to_scalars_with_len(input.epk, epk_max)
    IN IF ~r.ok THEN Err(r.err, NoPubkeyFrs)
       ELSE IF Len(r.val) < 4 THEN Err(Panic, NoPubkeyFrs)
       ELSE Ok([frs |-> SubSeq(r.val, 1, 3), len |-> r.val[4]])

override_aud_val_hashed(input) ==
    HashUnder(override_aud_value(input), Ok(MAX_AUD_VAL_BYTES))

\* the flag left at 0 whatever the bundle holds
use_override_aud_never(input) == FrInt(0)

use_override_aud(input) == IF input.idc_aud.some THEN FrInt(1) ELSE FrInt(0)

\* the value cut to the maximum before it is committed
iss_val_hash_truncating(field, config) ==
    LET m == ConfigGet(config, "iss_value")
    IN HashUnder(Ok(SubSeq(field.value, 1, Min(Len(field.value), m.val))), m)

iss_val_hash(field, config) ==
    HashUnder(Ok(field.value), ConfigGet(config, "iss_value"))

\* the flag set whatever the bundle holds
use_extra_field_fr_always(input) == FrInt(1)

use_extra_field_fr(input) == FrInt(IF use_extra_field(input) THEN 1 ELSE 0)

extra_field_hash(field, config) ==
    HashUnder(Ok(field.whole_field), ConfigGet(config, "extra_field"))

\* the header committed without its separator
jwt_header_hash_no_dot(input, config) ==
    HashUnder(Ok(input.header), ConfigIndex(config, "jwt_header_with_separator"))

jwt_header_hash(input, config) ==
    HashUnder(Ok(header_undecoded_with_dot(input)),
              ConfigIndex(config, "jwt_header_with_separator"))

pubkey_hash_fr(input) == to_poseidon_scalar(input.jwk)

----------------------------------------------------------------------------
(* Calls *)

NoOutcome == [kind |-> "none", result |-> FrInt(0), err |-> NoErr]

\* a call that has not started: its arguments, and its locals not yet assigned
NewCall(req, round, prev) ==
    [input |-> req.input, config |-> req.config, pc |-> "iss",
     round |-> round, prev |-> prev, steps |-> <<>>,
     iss_field |-> NoField, temp_pubkey_frs |-> <<>>, temp_pubkey_len |-> FrInt(0),
     extra_field |-> NoField, override_aud_val_hashed |-> FrInt(0),
     use_override_aud |-> FrInt(0), frs |-> <<>>,
     uid_field |-> NoField, idc_frs |-> <<>>, addr_idc_fr |-> FrInt(0),
     outcome |-> NoOutcome]

\* `?` on an error, or a panic: the call ends there
Failed(call, e) ==
    [call EXCEPT !.pc = "done",
                 !.outcome = [kind |-> IF e.type = "panic" THEN "panic" ELSE "err",
                              result |-> FrInt(0), err |-> e]]

Returned(call, fr) ==
    [call EXCEPT !.pc = "done",
                 !.outcome = [kind |-> "ok", result |-> fr, err |-> NoErr]]

\* caller c has executed the statement it was at, which leaves its call as `call`
Set(c, call) ==
    /\ calls' = [calls EXCEPT ![c] = [call EXCEPT !.steps = Append(@, calls[c].pc)]]
    /\ UNCHANGED epk_max

\* the callers there may be; a specification starts some of them
Callers == {1, 2}

\* caller c is at statement p
At(c, p) == c \in DOMAIN calls /\ calls[c].pc = p

\* line 70
ParseIss(c) ==
    /\ At(c, "iss")
    /\ LET r == iss_field(calls[c].input)
       IN Set(c, IF r.ok THEN [calls[c] EXCEPT !.iss_field = r.val, !.pc = "epk"]
                 ELSE Failed(calls[c], r.err))

\* line 71
TempPubkey(c) ==
    /\ At(c, "epk")
    /\ LET r == compute_temp_pubkey_frs(calls[c].input)
       IN Set(c, IF r.ok
                 THEN [calls[c] EXCEPT !.temp_pubkey_frs = r.val.frs,
                                       !.temp_pubkey_len = r.val.len, !.pc = "extra"]
                 ELSE Failed(calls[c], r.err))

\* line 73
ExtraField(c) ==
    /\ At(c, "extra")
    /\ LET r == parsed_extra_field_or_default(calls[c].input)
       IN Set(c, IF r.ok THEN [calls[c] EXCEPT !.extra_field = r.val, !.pc = "override"]
                 ELSE Failed(calls[c], r.err))

\* lines 75-83
OverrideAud(c) ==
    /\ At(c, "override")
    /\ LET r == override_aud_val_hashed(calls[c].input)
       IN Set(c, IF r.ok
                 THEN [calls[c] EXCEPT !.override_aud_val_hashed = r.val,
                                       !.use_override_aud = use_override_aud(calls[c].input),
                                       !.pc = "frs"]
                 ELSE Failed(calls[c], r.err))

\* lines 86-88
InitFrs(c) ==
    /\ At(c, "frs")
    /\ Set(c, [calls[c] EXCEPT !.frs = calls[c].temp_pubkey_frs
                                        \o <<calls[c].temp_pubkey_len>>,
                               !.pc = "idc_uid"])

\* line 91 (the payload decoded again) and lines 17-19
IdcFindUid(c) ==
    /\ At(c, "idc_uid")
    /\ LET p == payload_decoded(calls[c].input)
           r == IF p.ok THEN uid_field(calls[c].input, p.val) ELSE Err(p.err, NoField)
       IN Set(c, IF r.ok
                 THEN [calls[c] EXCEPT !.uid_field = r.val, !.idc_frs = <<>>,
                                       !.pc = "idc_aud"]
                 ELSE Failed(calls[c], r.err))

\* lines 21-29
IdcAud(c) ==
    /\ At(c, "idc_aud")
    /\ LET r == aud_hash_fr(calls[c].input, calls[c].config)
       IN Set(c, IF r.ok
                 THEN [calls[c] EXCEPT !.idc_frs = <<calls[c].input.pepper_fr, r.val>>,
                                       !.pc = "idc_uid_val"]
                 ELSE Failed(calls[c], r.err))

\* lines 30-37
IdcUidVal(c) ==
    /\ At(c, "idc_uid_val")
    /\ LET r == uid_val_hash_fr(calls[c].uid_field, calls[c].config)
       IN Set(c, IF r.ok
                 THEN [calls[c] EXCEPT !.idc_frs = Append(@, r.val), !.pc = "idc_uid_key"]
                 ELSE Failed(calls[c], r.err))

\* lines 38-45
IdcUidKey(c) ==
    /\ At(c, "idc_uid_key")
    /\ LET r == uid_key_hash_fr(calls[c].uid_field, calls[c].config)
       IN Set(c, IF r.ok
                 THEN [calls[c] EXCEPT !.idc_frs = Append(@, r.val), !.pc = "idc_hash"]
                 ELSE Failed(calls[c], r.err))

\* line 47, and lines 91-92 on return
IdcHash(c) ==
    /\ At(c, "idc_hash")
    /\ LET r == hash_scalars(calls[c].idc_frs)
       IN Set(c, IF r.ok
                 THEN [calls[c] EXCEPT !.addr_idc_fr = r.val, !.frs = Append(@, r.val),
                                       !.pc = "exp"]
                 ELSE Failed(calls[c], r.err))

\* lines 95-98
PushExp(c) ==
    /\ At(c, "exp")
    /\ Set(c, [calls[c] EXCEPT !.frs = @ \o <<FrInt(calls[c].input.exp_date_secs),
                                              FrInt(calls[c].input.exp_horizon_secs)>>,
                               !.pc = "iss_val"])

\* lines 100-107
IssVal(c) ==
    /\ At(c, "iss_val")
    /\ LET r == iss_val_hash(calls[c].iss_field, calls[c].config)
       IN Set(c, IF r.ok
                 THEN [calls[c] EXCEPT !.frs = Append(@, r.val), !.pc = "extra_hash"]
                 ELSE Failed(calls[c], r.err))

\* lines 109-118
ExtraHash(c) ==
    /\ At(c, "extra_hash")
    /\ LET r == extra_field_hash(calls[c].extra_field, calls[c].config)
       IN Set(c, IF r.ok
                 THEN [calls[c] EXCEPT !.frs = @ \o <<use_extra_field_fr(calls[c].input),
                                                      r.val>>,
                                       !.pc = "header"]
                 ELSE Failed(calls[c], r.err))

\* lines 121-126
HeaderHash(c) ==
    /\ At(c, "header")
    /\ LET r == jwt_header_hash(calls[c].input, calls[c].config)
       IN Set(c, IF r.ok THEN [calls[c] EXCEPT !.frs = Append(@, r.val), !.pc = "jwk"]
                 ELSE Failed(calls[c], r.err))

\* lines 128-129
JwkHash(c) ==
    /\ At(c, "jwk")
    /\ LET r == pubkey_hash_fr(calls[c].input)
       IN Set(c, IF r.ok THEN [calls[c] EXCEPT !.frs = Append(@, r.val), !.pc = "finish"]
                 ELSE Failed(calls[c], r.err))

\* the vector kept in one buffer that concurrent calls share: a call that
\* finishes while another is under way hands the other's vector to the sponge
final_frs_shared(call) ==
    LET others == {d \in DOMAIN calls : calls[d] # call /\ calls[d].frs # <<>>}
    IN (IF others = {} THEN call.frs ELSE calls[CHOOSE d \in others : TRUE].frs)
       \o <<call.override_aud_val_hashed, call.use_override_aud>>

\* the vector handed to the final sponge, lines 131-133
final_frs(call) ==
    call.frs \o <<call.override_aud_val_hashed, call.use_override_aud>>

\* lines 131-135 and 161
Finish(c) ==
    /\ At(c, "finish")
    /\ LET v == final_frs(calls[c])
           r == hash_scalars(v)
       IN Set(c, IF r.ok THEN Returned([calls[c] EXCEPT !.frs = v], r.val)
                 ELSE Failed(calls[c], r.err))

\* the caller invokes the function again on the same bundle and config
Reinvoke(c) ==
    /\ At(c, "done")
    /\ calls[c].round < MaxRounds
    /\ calls' = [calls EXCEPT ![c] = NewCall(calls[c], calls[c].round + 1,
                                              calls[c].outcome)]
    /\ UNCHANGED epk_max

Step(c) ==
    \/ ParseIss(c)
    \/ TempPubkey(c)
    \/ ExtraField(c)
    \/ OverrideAud(c)
    \/ InitFrs(c)
    \/ IdcFindUid(c)
    \/ IdcAud(c)
    \/ IdcUidVal(c)
    \/ IdcUidKey(c)
    \/ IdcHash(c)
    \/ PushExp(c)
    \/ IssVal(c)
    \/ ExtraHash(c)
    \/ HeaderHash(c)
    \/ JwkHash(c)
    \/ Finish(c)

Next == \E c \in Callers : Step(c)

\* one call on one request, the packing primitive as the build links it
Init ==
    /\ epk_max = DEVNET_MAX_COMMITED_EPK_BYTES
    /\ \E r \in Requests : calls = [c \in {1} |-> NewCall(r, 1, NoOutcome)]

Spec == Init /\ [][Next]_vars

\* the maxima the protocol configuration may hand to the packing primitive,
\* which returns one scalar per BYTES_PACKED_PER_SCALAR bytes of it, and the length
EpkMaxima == {DEVNET_MAX_COMMITED_EPK_BYTES + k * BYTES_PACKED_PER_SCALAR : k \in -2..1}

\* one call on one request, against a packing primitive of any of these widths
InitEnc ==
    /\ epk_max \in EpkMaxima
    /\ \E r \in {Request(Apply(s)) : s \in EditSets(1)} :
           calls = [c \in {1} |-> NewCall(r, 1, NoOutcome)]

SpecEnc == InitEnc /\ [][Next]_vars

\* the requests of concurrent callers: the baseline, the extra field named,
\* named by the empty string and not named, over a payload with and without a
\* member of that name, an override audience, and a config lacking a key
ConcEditSets ==
    {{},
     {<<"extra_field", "none">>},
     {<<"extra_field", "empty">>},
     {<<"empty_member", "yes">>},
     {<<"extra_field", "none">>, <<"empty_member", "yes">>},
     {<<"extra_field", "empty">>, <<"empty_member", "yes">>},
     {<<"idc_aud", "empty">>},
     {<<"cfg_iss_value", "no">>}}

ConcRequests == {Request(Apply(s)) : s \in ConcEditSets}

\* every caller holds its own request, possibly the same as another's
InitConc ==
    /\ epk_max = DEVNET_MAX_COMMITED_EPK_BYTES
    /\ calls \in [Callers -> {NewCall(r, 1, NoOutcome) : r \in ConcRequests}]

NextConc == Next \/ \E c \in Callers : Reinvoke(c)

\* the callers' statements interleave freely
SpecConc == InitConc /\ [][NextConc]_vars

\* the same request with another expiry horizon
OtherHorizon(req) == [req EXCEPT !.input.exp_horizon_secs = @ + 1]

\* the same request under a config whose iss_value length is one byte larger
WiderIssValue(req) == [req EXCEPT !.config.iss_value = @ + 1]

\* what a request feeds to compute_idc_hash: the baseline's, or another pepper
IdcEditSets == {{}, {<<"pepper", "p77">>}}

\* what else a request holds: another ephemeral key, expiry, extra field name,
\* header, JWK, iss value, other payload members, override audience
TokenEditSets ==
    {{},
     {<<"epk", "max">>},
     {<<"exp", "b">>},
     {<<"extra_field", "none">>},
     {<<"header", "max">>},
     {<<"jwk", "rsa2">>},
     {<<"iss", "max">>},
     {<<"fam", "max">>},
     {<<"empty_member", "yes">>},
     {<<"idc_aud", "short">>}}

IdcRequests ==
    LET plain == {Request(Apply(i \cup t)) : i \in IdcEditSets, t \in TokenEditSets}
        same == {Request(Apply(i)) : i \in IdcEditSets}
    IN plain \cup {OtherHorizon(r) : r \in same} \cup {WiderIssValue(r) : r \in same}

\* the requests of the second caller: the baseline token or one with another
\* ephemeral key, around either identity
IdcPeerRequests ==
    {Request(Apply(i \cup t)) : i \in IdcEditSets, t \in {{}, {<<"epk", "max">>}}}

\* two callers, each with a request of its own token around an identity
InitIdc ==
    /\ epk_max = DEVNET_MAX_COMMITED_EPK_BYTES
    /\ \E r \in IdcRequests, q \in IdcPeerRequests :
          calls = <<NewCall(r, 1, NoOutcome), NewCall(q, 1, NoOutcome)>>

SpecIdc == InitIdc /\ [][Next]_vars

Done(c) == calls[c].pc = "done"

Succeeded(c) == Done(c) /\ calls[c].outcome.kind = "ok"

ErrType(c) == calls[c].outcome.err.type

\* caller c's call has executed statement p
Ran(c, p) == \E i \in 1..Len(calls[c].steps) : calls[c].steps[i] = p

\* the statement at which caller c's call ended
LastStep(c) == calls[c].steps[Len(calls[c].steps)]

----------------------------------------------------------------------------
(* What the claims speak of, stated from the request alone *)

Req(c) == [input |-> calls[c].input, config |-> calls[c].config]

\* the String Commitment of str under max
Commit(str, max) == pad_and_hash_string(str, max).val

\* the member of the decoded payload named key
Extracted(req, key) == find_and_parse_field(req.input.payload, key).val

HasMember(req, key) == \E i \in 1..Len(req.input.payload) : req.input.payload[i].key = key

\* the text committed in the extra-field slot
ExtraText(req) ==
    IF req.input.extra_field.some
    THEN Extracted(req, req.input.extra_field.v).whole_field
    ELSE DefaultExtraField.whole_field

\* the text committed in the override-audience slot
OverrideText(req) ==
    IF req.input.idc_aud.some THEN req.input.idc_aud.v ELSE DefaultOverrideAud

\* the identity commitment of section 4.4
ExpectedIdc(req) ==
    FrSponge(<<req.input.pepper_fr,
               Commit(req.input.private_aud, req.config["private_aud_value"]),
               Commit(Extracted(req, req.input.uid_key).value, req.config["uid_value"]),
               Commit(Extracted(req, req.input.uid_key).key, req.config["uid_name"])>>)

\* the 14 slots of section 4.6
ExpectedFrs(req) ==
    LET pk == pad_and_pack_bytes_to_scalars_with_len(req.input.epk, epk_max).val
    IN <<pk[1], pk[2], pk[3],
         FrInt(Len(req.input.epk)),
         ExpectedIdc(req),
         FrInt(req.input.exp_date_secs),
         FrInt(req.input.exp_horizon_secs),
         Commit(Extracted(req, S_iss).value, req.config["iss_value"]),
         FrInt(IF req.input.extra_field.some THEN 1 ELSE 0),
         Commit(ExtraText(req), req.config["extra_field"]),
         Commit(req.input.header \o <<46>>, req.config["jwt_header_with_separator"]),
         FrJwk(req.input.jwk.id),
         Commit(OverrideText(req), MAX_AUD_VAL_BYTES),
         FrInt(IF req.input.idc_aud.some THEN 1 ELSE 0)>>

----------------------------------------------------------------------------
(* C1: whenever compute_public_inputs_hash succeeds, the vector it hands to  *)
(* the final sponge has exactly 14 scalars, the slots of section 4.6 in      *)
(* that order, and the result is the sponge of that vector.                  *)
C1_FourteenSlots ==
    \A c \in DOMAIN calls :
        Succeeded(c) =>
            /\ ConfigKeys \subseteq DOMAIN calls[c].config
            /\ Len(calls[c].frs) = 14
            /\ calls[c].frs = ExpectedFrs(Req(c))
            /\ calls[c].outcome.result = FrSponge(ExpectedFrs(Req(c)))

\* a call like the known-vector test succeeded: extra field named, no override audience
C1_Witness ==
    \E c \in DOMAIN calls :
        /\ Succeeded(c)
        /\ calls[c].input.extra_field.some
        /\ ~calls[c].input.idc_aud.some

\* compute_idc_hash has returned Ok in caller c's call
IdcSucceeded(c) == Ran(c, "idc_hash")

(* C2: whenever compute_idc_hash succeeds, the identity commitment is the    *)
(* sponge of [pepper, commitment of the private audience value, commitment   *)
(* of the user-id value, commitment of the user-id key text], in that order. *)
C2_IdcVector ==
    \A c \in DOMAIN calls :
        IdcSucceeded(c) =>
            /\ {"private_aud_value", "uid_value", "uid_name"} \subseteq DOMAIN calls[c].config
            /\ calls[c].idc_frs = ExpectedIdc(Req(c)).pre
            /\ Len(calls[c].idc_frs) = 4
            /\ calls[c].addr_idc_fr = ExpectedIdc(Req(c))

\* the identity commitment was computed, here with a pepper other than the baseline's
C2_Witness ==
    \E c \in DOMAIN calls :
        /\ IdcSucceeded(c)
        /\ calls[c].input.pepper_fr = FrInt(77)
        /\ calls[c].addr_idc_fr.tag = "hash"

----------------------------------------------------------------------------
(* Validity of a request, stated from the request alone *)

\* the committed fields: the six named by their config key, and the two whose
\* maximum is a protocol constant
Fields == ConfigKeys \cup {"override_aud", "epk"}

CommittedText(req, f) ==
    CASE f = "private_aud_value" -> req.input.private_aud
      [] f = "uid_value" -> Extracted(req, req.input.uid_key).value
      [] f = "uid_name" -> Extracted(req, req.input.uid_key).key
      [] f = "iss_value" -> Extracted(req, S_iss).value
      [] f = "extra_field" -> ExtraText(req)
      [] f = "jwt_header_with_separator" -> req.input.header \o <<46>>
      [] f = "override_aud" -> OverrideText(req)
      [] f = "epk" -> req.input.epk

\* defined when the config holds the key of f
DeclaredMax(req, f) ==
    CASE f = "override_aud" -> MAX_AUD_VAL_BYTES
      [] f = "epk" -> epk_max
      [] OTHER -> req.config[f]

HasMax(req, f) == f \in ConfigKeys => f \in DOMAIN req.config

\* the fields longer than their declared maximum
Over(req) ==
    {f \in Fields : HasMax(req, f) /\ Len(CommittedText(req, f)) > DeclaredMax(req, f)}

\* the payload decodes and holds every member the bundle names
FieldsFound(req) ==
    /\ req.input.payload_ok
    /\ HasMember(req, S_iss)
    /\ HasMember(req, req.input.uid_key)
    /\ req.input.extra_field.some => HasMember(req, req.input.extra_field.v)

\* a bundle with nothing wrong in it
BundleValid(req) == FieldsFound(req) /\ req.input.jwk.supported /\ Over(req) = {}

MissingKeys(req) == ConfigKeys \ DOMAIN req.config

----------------------------------------------------------------------------
(* C3: with an otherwise valid bundle, if any of the six config keys is      *)
(* absent, compute_public_inputs_hash returns ConfigKeyMissing as an error   *)
(* value; it never panics.                                                   *)
C3_MissingKeyIsReturned ==
    \A c \in DOMAIN calls :
        (Done(c) /\ BundleValid(Req(c)) /\ MissingKeys(Req(c)) # {}) =>
            /\ calls[c].outcome.kind = "err"
            /\ ErrType(c) = "ConfigKeyMissing"

\* what the code does: a missing key read with `get` is returned as
\* ConfigKeyMissing; when the only missing key is the indexed one, the call panics
C3_OnlyIndexedKeyPanics ==
    \A c \in DOMAIN calls :
        (Done(c) /\ BundleValid(Req(c)) /\ MissingKeys(Req(c)) # {}) =>
            IF MissingKeys(Req(c)) = {"jwt_header_with_separator"}
            THEN calls[c].outcome.kind = "panic"
            ELSE /\ calls[c].outcome.kind = "err"
                 /\ ErrType(c) = "ConfigKeyMissing"
                 /\ calls[c].outcome.err.name \in MissingKeys(Req(c))

----------------------------------------------------------------------------
(* C4: with everything else valid, a committed field longer than its         *)
(* declared maximum makes the call return LengthExceeded and no scalar; with *)
(* every field within its maximum, its maximum included, the call succeeds.  *)
C4_LengthOverflow ==
    \A c \in DOMAIN calls :
        (/\ Done(c)
         /\ FieldsFound(Req(c))
         /\ calls[c].input.jwk.supported
         /\ MissingKeys(Req(c)) = {}) =>
            /\ Over(Req(c)) = {} => calls[c].outcome.kind = "ok"
            /\ Over(Req(c)) # {} =>
                  /\ calls[c].outcome.kind = "err"
                  /\ ErrType(c) = "LengthExceeded"
            /\ \A f \in Fields :
                  Over(Req(c)) = {f} =>
                      calls[c].outcome.err =
                          LengthExceeded(Len(CommittedText(Req(c), f)),
                                         DeclaredMax(Req(c), f))

\* field f of caller c's request is one byte over its maximum, nothing else is wrong
OneByteOver(c, f) ==
    /\ Done(c)
    /\ FieldsFound(Req(c))
    /\ calls[c].input.jwk.supported
    /\ MissingKeys(Req(c)) = {}
    /\ Over(Req(c)) = {f}
    /\ Len(CommittedText(Req(c), f)) = DeclaredMax(Req(c), f) + 1

\* field f of caller c's request is exactly at its maximum, nothing is wrong
AtMax(c, f) ==
    /\ Done(c)
    /\ BundleValid(Req(c))
    /\ MissingKeys(Req(c)) = {}
    /\ Len(CommittedText(Req(c), f)) = DeclaredMax(Req(c), f)

\* the iss value one byte too long was rejected
C4_Witness ==
    \E c \in DOMAIN calls :
        /\ OneByteOver(c, "iss_value")
        /\ ErrType(c) = "LengthExceeded"

----------------------------------------------------------------------------
\* nothing that is evaluated before the user-id extraction fails
ValidBeforeIdc(req) ==
    /\ Len(req.input.epk) <= epk_max
    /\ req.input.extra_field.some => HasMember(req, req.input.extra_field.v)
    /\ Len(OverrideText(req)) <= MAX_AUD_VAL_BYTES

(* C5: when the decoded payload lacks `iss`, or lacks the key named by the   *)
(* bundle's uid_key while the rest of the bundle is valid, the call returns  *)
(* FieldNotFound and no scalar, whatever the config holds.                   *)
C5_MissingMember ==
    \A c \in DOMAIN calls :
        (Done(c) /\ calls[c].input.payload_ok) =>
            /\ ~HasMember(Req(c), S_iss) =>
                  /\ calls[c].outcome.kind = "err"
                  /\ calls[c].outcome.err = FieldNotFound(S_iss)
            /\ (/\ HasMember(Req(c), S_iss)
                /\ ~HasMember(Req(c), calls[c].input.uid_key)
                /\ ValidBeforeIdc(Req(c))) =>
                  /\ calls[c].outcome.kind = "err"
                  /\ calls[c].outcome.err = FieldNotFound(calls[c].input.uid_key)

\* the user-id member was missing, under a config that itself lacks a key
C5_Witness ==
    \E c \in DOMAIN calls :
        /\ Done(c)
        /\ calls[c].input.payload_ok
        /\ HasMember(Req(c), S_iss)
        /\ ~HasMember(Req(c), calls[c].input.uid_key)
        /\ MissingKeys(Req(c)) # {}
        /\ ErrType(c) = "FieldNotFound"

----------------------------------------------------------------------------
\* what the Byte-Packing Primitive returns for caller c's ephemeral key
Packed(c) == pad_and_pack_bytes_to_scalars_with_len(calls[c].input.epk, epk_max)

C6_EncoderAsWritten ==
    \A c \in DOMAIN calls :
        (Ran(c, "epk") /\ Packed(c).ok) =>
            IF Len(Packed(c).val) < 4
            THEN Done(c) /\ LastStep(c) = "epk" /\ calls[c].outcome.kind = "panic"
            ELSE /\ Ran(c, "extra") \/ calls[c].pc = "extra"
                 /\ calls[c].temp_pubkey_frs = SubSeq(Packed(c).val, 1, 3)
                 /\ calls[c].temp_pubkey_len = Packed(c).val[4]
                 /\ Len(Packed(c).val) > 4 =>
                       calls[c].temp_pubkey_len # FrInt(Len(calls[c].input.epk))

----------------------------------------------------------------------------
\* the override-audience commitment of the same request without an override audience
NoOverrideCommitment(req) ==
    Commit(OverrideText([req EXCEPT !.input.idc_aud = None]), MAX_AUD_VAL_BYTES)

\* slot 14 of a successful call is 1 iff the bundle holds an override audience, else 0
OverrideFlagMatches(c) ==
    calls[c].frs[14] = IF calls[c].input.idc_aud.some THEN FrInt(1) ELSE FrInt(0)

----------------------------------------------------------------------------
\* the requests of a and b are the same but for the extra field name, which one
\* supplies and the other does not
DifferOnlyInExtraField(a, b) ==
    /\ calls[a].config = calls[b].config
    /\ [calls[a].input EXCEPT !.extra_field = None]
         = [calls[b].input EXCEPT !.extra_field = None]
    /\ ~calls[a].input.extra_field.some
    /\ calls[b].input.extra_field.some

(* C8: the extra-field flag (slot 9) of a successful call is 1 iff an extra  *)
(* field name was supplied, 0 otherwise; so two calls whose requests differ  *)
(* only in extra_field_name being None versus Some (Some of the empty string *)
(* included) never yield the same 14-element vector, nor the same result.    *)
C8_ExtraFieldDistinguishable ==
    /\ \A c \in DOMAIN calls :
          Succeeded(c) =>
              calls[c].frs[9] = IF calls[c].input.extra_field.some THEN FrInt(1)
                                ELSE FrInt(0)
    /\ \A a, b \in DOMAIN calls :
          (DifferOnlyInExtraField(a, b) /\ Succeeded(a) /\ Succeeded(b)) =>
              /\ calls[a].frs # calls[b].frs
              /\ calls[a].outcome.result # calls[b].outcome.result

\* two calls succeeded on requests that differ only in the extra field name being
\* None and Some of the empty string
C8_Witness ==
    \E a, b \in DOMAIN calls :
        /\ DifferOnlyInExtraField(a, b)
        /\ calls[b].input.extra_field = Some(<<>>)
        /\ Succeeded(a)
        /\ Succeeded(b)

----------------------------------------------------------------------------
\* a repeated invocation returned what the invocation before it returned
SameAsBefore ==
    \A c \in DOMAIN calls :
        (Done(c) /\ calls[c].round > 1) => calls[c].outcome = calls[c].prev

\* two callers holding the same bundle and config were returned the same outcome
SameAcrossCallers ==
    \A a, b \in DOMAIN calls :
        (Done(a) /\ Done(b) /\ Req(a) = Req(b)) => calls[a].outcome = calls[b].outcome

\* no step of any caller changes a bundle or a config
ArgumentsUntouched ==
    \A c \in DOMAIN calls :
        /\ calls'[c].input = calls[c].input
        /\ calls'[c].config = calls[c].config

(* C10: the outcome of compute_public_inputs_hash is a function of its       *)
(* (bundle, config) arguments alone: repeated invocations on the same pair,  *)
(* by one caller in sequence or by callers whose statements interleave with  *)
(* invocations on other pairs, return the identical outcome, and no          *)
(* invocation changes the bundle or the config.                              *)
C10_Deterministic ==
    /\ [](SameAsBefore /\ SameAcrossCallers)
    /\ [][ArgumentsUntouched]_vars

\* a caller's second invocation succeeded while another caller, holding another
\* request, was in the middle of its own
C10_Witness ==
    \E a, b \in DOMAIN calls :
        /\ Succeeded(a)
        /\ calls[a].round = 2
        /\ calls[a].outcome = calls[a].prev
        /\ Req(a) # Req(b)
        /\ calls[b].pc = "header"

----------------------------------------------------------------------------
\* the requests of a and b feed the same pepper, private audience value,
\* extracted user-id key and value, and the same three lengths to compute_idc_hash
AgreeOnIdcInputs(a, b) ==
    /\ calls[a].input.pepper_fr = calls[b].input.pepper_fr
    /\ private_aud_value(calls[a].input) = private_aud_value(calls[b].input)
    /\ Extracted(Req(a), calls[a].input.uid_key).key
         = Extracted(Req(b), calls[b].input.uid_key).key
    /\ Extracted(Req(a), calls[a].input.uid_key).value
         = Extracted(Req(b), calls[b].input.uid_key).value
    /\ \A k \in {"private_aud_value", "uid_value", "uid_name"} :
          calls[a].config[k] = calls[b].config[k]

(* C11: the identity commitment (slot 5) depends only on the pepper, the     *)
(* private audience value, the extracted user-id key and value and the       *)
(* config lengths private_aud_value, uid_value, uid_name: two calls in which *)
(* compute_idc_hash succeeded on requests agreeing on those hold the same    *)
(* identity commitment, whatever else their requests differ in, and a        *)
(* successful call carries that commitment in slot 5.                        *)
C11_IdcIndependentOfToken ==
    /\ \A a, b \in DOMAIN calls :
          (IdcSucceeded(a) /\ IdcSucceeded(b) /\ AgreeOnIdcInputs(a, b)) =>
              calls[a].addr_idc_fr = calls[b].addr_idc_fr
    /\ \A c \in DOMAIN calls :
          Succeeded(c) => calls[c].frs[5] = calls[c].addr_idc_fr

\* two calls succeeded on requests that agree on what compute_idc_hash reads and
\* differ in ephemeral public key and iss value: same slot 5, different results
C11_Witness ==
    \E a, b \in DOMAIN calls :
        /\ Succeeded(a)
        /\ Succeeded(b)
        /\ AgreeOnIdcInputs(a, b)
        /\ calls[a].input.epk # calls[b].input.epk
        /\ Extracted(Req(a), S_iss).value # Extracted(Req(b), S_iss).value
        /\ calls[a].frs[5] = calls[b].frs[5]
        /\ calls[a].outcome.result # calls[b].outcome.result

----------------------------------------------------------------------------
(* The fixed evaluation order, and what each step yields on its own *)

\* the statements of a call, in source order
ProgramOrder ==
    <<"iss", "epk", "extra", "override", "frs", "idc_uid", "idc_aud", "idc_uid_val",
      "idc_uid_key", "idc_hash", "exp", "iss_val", "extra_hash", "header", "jwk",
      "finish">>

\* the steps that can fail, in evaluation order, each with the statement it is part of
FailingSteps ==
    <<[step |-> "payload decode", at |-> "iss"],
      [step |-> "iss extraction", at |-> "iss"],
      [step |-> "epk", at |-> "epk"],
      [step |-> "extra-field extraction", at |-> "extra"],
      [step |-> "override_aud", at |-> "override"],
      [step |-> "user-id extraction", at |-> "idc_uid"],
      [step |-> "private_aud_value", at |-> "idc_aud"],
      [step |-> "uid_value", at |-> "idc_uid_val"],
      [step |-> "uid_name", at |-> "idc_uid_key"],
      [step |-> "iss_value", at |-> "iss_val"],
      [step |-> "extra_field", at |-> "extra_hash"],
      [step |-> "jwt_header_with_separator", at |-> "header"],
      [step |-> "JWK hash", at |-> "jwk"]>>

\* the failure of a commitment step taken alone: its config key first, then the length
CommitFailure(req, f) ==
    IF ~HasMax(req, f) THEN ConfigKeyMissing(f)
    ELSE IF Len(CommittedText(req, f)) > DeclaredMax(req, f)
    THEN LengthExceeded(Len(CommittedText(req, f)), DeclaredMax(req, f))
    ELSE NoErr

\* the failure of step s taken alone, NoErr when it does not fail
StepFailure(req, s) ==
    CASE s = "payload decode" -> IF req.input.payload_ok THEN NoErr ELSE MalformedToken
      [] s = "iss extraction" ->
            IF HasMember(req, S_iss) THEN NoErr ELSE FieldNotFound(S_iss)
      [] s = "extra-field extraction" ->
            IF req.input.extra_field.some /\ ~HasMember(req, req.input.extra_field.v)
            THEN FieldNotFound(req.input.extra_field.v) ELSE NoErr
      [] s = "user-id extraction" ->
            IF HasMember(req, req.input.uid_key) THEN NoErr
            ELSE FieldNotFound(req.input.uid_key)
      [] s = "JWK hash" -> IF req.input.jwk.supported THEN NoErr ELSE UnsupportedKeyType
      [] OTHER -> CommitFailure(req, s)

\* the indices of the steps that fail on this request
Failing(req) ==
    {k \in 1..Len(FailingSteps) : StepFailure(req, FailingSteps[k].step) # NoErr}

Earliest(req) == CHOOSE k \in Failing(req) : \A j \in Failing(req) : k <= j

\* the statements of the program up to and including statement p
UpTo(p) ==
    SubSeq(ProgramOrder, 1, CHOOSE i \in 1..Len(ProgramOrder) : ProgramOrder[i] = p)

(* C9: a finished call returns the failure of the earliest failing step of   *)
(* the fixed evaluation order, as an error value and unchanged; no statement *)
(* after that step was executed and no scalar is returned; when no step      *)
(* fails the call succeeds after executing every statement.                  *)
C9_EarliestFailure ==
    \A c \in DOMAIN calls :
        Done(c) =>
            IF Failing(Req(c)) = {}
            THEN calls[c].outcome.kind = "ok" /\ calls[c].steps = ProgramOrder
            ELSE /\ calls[c].outcome.kind = "err"
                 /\ calls[c].outcome.err =
                        StepFailure(Req(c), FailingSteps[Earliest(Req(c))].step)
                 /\ calls[c].outcome.result = FrInt(0)
                 /\ calls[c].steps = UpTo(FailingSteps[Earliest(Req(c))].at)

\* the earliest failing step is the header commitment, its config key being absent
HeaderKeyFailsFirst(req) ==
    /\ Failing(req) # {}
    /\ FailingSteps[Earliest(req)].step = "jwt_header_with_separator"
    /\ ~HasMax(req, "jwt_header_with_separator")

\* what the code does: the same, except that when the earliest failing step is
\* the header commitment with its key absent, the call panics at that step
C9_EarliestFailureOrPanic ==
    \A c \in DOMAIN calls :
        Done(c) =>
            IF Failing(Req(c)) = {}
            THEN calls[c].outcome.kind = "ok" /\ calls[c].steps = ProgramOrder
            ELSE /\ calls[c].outcome.result = FrInt(0)
                 /\ calls[c].steps = UpTo(FailingSteps[Earliest(Req(c))].at)
                 /\ IF HeaderKeyFailsFirst(Req(c))
                    THEN calls[c].outcome.kind = "panic"
                    ELSE /\ calls[c].outcome.kind = "err"
                         /\ calls[c].outcome.err =
                                StepFailure(Req(c), FailingSteps[Earliest(Req(c))].step)

====
